---- MODULE Spec2Model ----
(***************************************************************************)
(* Model of api/v1beta1/plugin_list.go: the PluginList value type, its     *)
(* fingerprint, its membership queries, Update, Sanitize and               *)
(* ConsolidatedConcat.                                                     *)
(*                                                                         *)
(* Go strings are modelled as sequences of one-character strings, so that  *)
(* concatenation (Hash) and parsing (semver.Parse) are computed character  *)
(* by character.  A GrafanaPlugin is a record [Name, Version]; a           *)
(* PluginList is a sequence of such records.  A nil slice and an empty     *)
(* slice are both the empty sequence.                                      *)
(***************************************************************************)
EXTENDS Integers, Sequences, FiniteSets

(***************************************************************************)
(* Bounds of the explored inputs.                                          *)
(***************************************************************************)
\* longest collection used as a receiver or as an argument
MaxLen == 3
\* largest combined length of a receiver and a collection argument
MaxTotal == 4

(***************************************************************************)
(* The strings the inputs are drawn from.                                  *)
(***************************************************************************)
NameP == <<"p">>
NameP1 == <<"p", "1">>
Names == {NameP, NameP1}

\* "1.0.0"
V1 == <<"1", ".", "0", ".", "0">>
\* "11.0.0"
V11 == <<"1", "1", ".", "0", ".", "0">>
\* "1.x": not a semantic version
VBad == <<"1", ".", "x">>
Versions == {V1, V11, VBad}

Plugins == [Name : Names, Version : Versions]

NoPlugin == [Name |-> <<>>, Version |-> <<>>]

\* the collections of n entries
ListsOfLen(n) == [1..n -> Plugins]

\* the collections of at most MaxLen entries
PluginLists == UNION {ListsOfLen(n) : n \in 0..MaxLen}

\* the lengths of a collection argument that go with the receiver lst
ArgumentLens(lst) == {n \in 0..MaxLen : Len(lst) + n <= MaxTotal}

(***************************************************************************)
(* github.com/blang/semver as plugin_list.go uses it: Parse/Make and       *)
(* Version.Compare, computed on the characters of the version string.      *)
(***************************************************************************)
numbers == {"0", "1", "2", "3", "4", "5", "6", "7", "8", "9"}

alphas == {"a", "b", "c", "d", "e", "f", "g", "h", "i", "j", "k", "l", "m",
           "n", "o", "p", "q", "r", "s", "t", "u", "v", "w", "x", "y", "z",
           "-"}

alphanum == alphas \cup numbers

\* the characters in ascending byte order, for string comparison
ByteOrder == <<"+", "-", ".", "0", "1", "2", "3", "4", "5", "6", "7", "8",
               "9", "a", "b", "c", "d", "e", "f", "g", "h", "i", "j", "k",
               "l", "m", "n", "o", "p", "q", "r", "s", "t", "u", "v", "w",
               "x", "y", "z">>

CharCode(c) == CHOOSE i \in 1..Len(ByteOrder) : ByteOrder[i] = c

DigitVal(c) == CharCode(c) - CharCode("0")

\* strings.IndexRune: position of the first c in s, 0 when absent
IndexRune(s, c) ==
    IF \E i \in 1..Len(s) : s[i] = c
    THEN CHOOSE i \in 1..Len(s) : s[i] = c /\ \A j \in 1..(i - 1) : s[j] # c
    ELSE 0

\* strings.Split(s, "."), given the position i of the first "."
RECURSIVE SplitDotsAt(_, _)
SplitDotsAt(s, i) ==
    IF i = 0 THEN <<s>>
    ELSE <<SubSeq(s, 1, i - 1)>>
         \o SplitDotsAt(SubSeq(s, i + 1, Len(s)),
                        IndexRune(SubSeq(s, i + 1, Len(s)), "."))

\* strings.Split(s, "."): always at least one part
SplitDots(s) == SplitDotsAt(s, IndexRune(s, "."))

\* strings.SplitN(s, ".", 3), given the position j of the first "." of rest
SplitRest(first, rest, j) ==
    IF j = 0 THEN <<first, rest>>
    ELSE <<first, SubSeq(rest, 1, j - 1), SubSeq(rest, j + 1, Len(rest))>>

\* strings.SplitN(s, ".", 3), given the position i of the first "." of s
SplitFirst(s, i) ==
    IF i = 0 THEN <<s>>
    ELSE SplitRest(SubSeq(s, 1, i - 1), SubSeq(s, i + 1, Len(s)),
                   IndexRune(SubSeq(s, i + 1, Len(s)), "."))

\* strings.SplitN(s, ".", 3): at most three parts, the last one unsplit
SplitN3(s) == SplitFirst(s, IndexRune(s, "."))

containsOnly(s, set) == \A i \in 1..Len(s) : s[i] \in set

hasLeadingZeroes(s) == Len(s) > 1 /\ s[1] = "0"

\* strconv.ParseUint(s, 10, 64) on a string of digits
RECURSIVE UintValue(_)
UintValue(s) ==
    IF Len(s) = 0 THEN 0
    ELSE 10 * UintValue(SubSeq(s, 1, Len(s) - 1)) + DigitVal(s[Len(s)])

\* a numeric field is accepted: digits only, no leading zero, not empty
NumericOK(s) == containsOnly(s, numbers) /\ ~hasLeadingZeroes(s) /\ Len(s) > 0

\* semver.NewPRVersion succeeds on s
PRVersionOK(s) ==
    /\ Len(s) > 0
    /\ IF containsOnly(s, numbers) THEN ~hasLeadingZeroes(s)
       ELSE containsOnly(s, alphanum)

\* semver.NewPRVersion: the parsed pre-release field
PRVersion(s) ==
    IF containsOnly(s, numbers)
    THEN [IsNum |-> TRUE, VersionNum |-> UintValue(s), VersionStr |-> <<>>]
    ELSE [IsNum |-> FALSE, VersionNum |-> 0, VersionStr |-> s]

BuildOK(s) == Len(s) > 0 /\ containsOnly(s, alphanum)

InvalidVersion ==
    [ok |-> FALSE, Major |-> 0, Minor |-> 0, Patch |-> 0, Pre |-> <<>>, Build |-> <<>>]

\* semver.Parse, last part: the checks of the five fields and the Version built
ParseFields(major, minor, patchStr, prerelease, build) ==
    IF /\ NumericOK(major)
       /\ NumericOK(minor)
       /\ NumericOK(patchStr)
       /\ \A k \in 1..Len(prerelease) : PRVersionOK(prerelease[k])
       /\ \A k \in 1..Len(build) : BuildOK(build[k])
    THEN [ok |-> TRUE,
          Major |-> UintValue(major),
          Minor |-> UintValue(minor),
          Patch |-> UintValue(patchStr),
          Pre |-> [k \in 1..Len(prerelease) |-> PRVersion(prerelease[k])],
          Build |-> build]
    ELSE InvalidVersion

\* semver.Parse: what follows the first "-" of the patch part is the pre-release
ParsePre(major, minor, patchStr, preIndex, build) ==
    ParseFields(major, minor,
                IF preIndex # 0 THEN SubSeq(patchStr, 1, preIndex - 1) ELSE patchStr,
                IF preIndex # 0
                THEN SplitDots(SubSeq(patchStr, preIndex + 1, Len(patchStr)))
                ELSE <<>>,
                build)

\* semver.Parse: what follows the first "+" of the patch part is the build
ParseBuild(major, minor, patchStr, build) ==
    ParsePre(major, minor, patchStr, IndexRune(patchStr, "-"), build)

\* semver.Parse: the patch part is cut at the first "+"
ParsePatch(major, minor, patchStr, buildIndex) ==
    ParseBuild(major, minor,
               IF buildIndex # 0 THEN SubSeq(patchStr, 1, buildIndex - 1) ELSE patchStr,
               IF buildIndex # 0
               THEN SplitDots(SubSeq(patchStr, buildIndex + 1, Len(patchStr)))
               ELSE <<>>)

\* semver.Parse: Major.Minor.Patch must be three parts
ParseParts(parts) ==
    IF Len(parts) # 3 THEN InvalidVersion
    ELSE ParsePatch(parts[1], parts[2], parts[3], IndexRune(parts[3], "+"))

\* semver.Parse: ok is FALSE when Parse returns an error
Parse(s) == IF Len(s) = 0 THEN InvalidVersion ELSE ParseParts(SplitN3(s))

\* semver.Make is Parse under another name
Make(s) == Parse(s)

\* Go's string comparison: -1, 0 or 1
RECURSIVE StrCompare(_, _)
StrCompare(a, b) ==
    IF Len(a) = 0 /\ Len(b) = 0 THEN 0
    ELSE IF Len(a) = 0 THEN -1
    ELSE IF Len(b) = 0 THEN 1
    ELSE IF CharCode(a[1]) < CharCode(b[1]) THEN -1
    ELSE IF CharCode(a[1]) > CharCode(b[1]) THEN 1
    ELSE StrCompare(Tail(a), Tail(b))

NumCompare(a, b) == IF a < b THEN -1 ELSE IF a > b THEN 1 ELSE 0

\* semver.PRVersion.Compare
PRCompare(v, o) ==
    IF v.IsNum /\ ~o.IsNum THEN -1
    ELSE IF ~v.IsNum /\ o.IsNum THEN 1
    ELSE IF v.IsNum /\ o.IsNum THEN NumCompare(v.VersionNum, o.VersionNum)
    ELSE StrCompare(v.VersionStr, o.VersionStr)

RECURSIVE PreCompare(_, _, _)
PreCompare(vPre, oPre, i) ==
    IF i <= Len(vPre) /\ i <= Len(oPre)
    THEN IF PRCompare(vPre[i], oPre[i]) = 0 THEN PreCompare(vPre, oPre, i + 1)
         ELSE PRCompare(vPre[i], oPre[i])
    ELSE IF i > Len(vPre) /\ i > Len(oPre) THEN 0
    ELSE IF i > Len(vPre) THEN -1
    ELSE 1

\* semver.Version.Compare: build metadata takes no part
Compare(v, o) ==
    IF v.Major # o.Major THEN NumCompare(v.Major, o.Major)
    ELSE IF v.Minor # o.Minor THEN NumCompare(v.Minor, o.Minor)
    ELSE IF v.Patch # o.Patch THEN NumCompare(v.Patch, o.Patch)
    ELSE IF Len(v.Pre) = 0 /\ Len(o.Pre) = 0 THEN 0
    ELSE IF Len(v.Pre) = 0 THEN 1
    ELSE IF Len(o.Pre) = 0 THEN -1
    ELSE PreCompare(v.Pre, o.Pre, 1)

(***************************************************************************)
(* PluginList.Hash                                                         *)
(***************************************************************************)
\* a fingerprint that writes the names only
HashWrite_NameOnly(sb, plugin) == sb \o plugin.Name

\* one iteration of the loop: the name, then the version, no separator
HashWrite(sb, plugin) == sb \o plugin.Name \o plugin.Version

RECURSIVE HashBuild(_, _, _)
HashBuild(lst, i, sb) ==
    IF i > Len(lst) THEN sb
    ELSE HashBuild(lst, i + 1, HashWrite(sb, lst[i]))

\* the hexadecimal SHA-256 digest, taken to be injective on the string hashed
Sha256Hex(str) == [sha256 |-> str]

Hash(lst) == Sha256Hex(HashBuild(lst, 1, <<>>))

(***************************************************************************)
(* PluginList.Update                                                       *)
(***************************************************************************)
\* The range clause copies lst[i] into the loop variable installedPlugin, a
\* struct value: the assignment to installedPlugin.Version writes the copy,
\* which is dropped at the break, and lst[i] keeps its value.
AssignToRangeCopy(lst, installedPlugin) == lst

RECURSIVE UpdateLoop(_, _, _)
UpdateLoop(lst, plugin, i) ==
    IF i > Len(lst) THEN lst
    ELSE IF lst[i].Name = plugin.Name
         THEN AssignToRangeCopy(lst, [lst[i] EXCEPT !.Version = plugin.Version])
    ELSE UpdateLoop(lst, plugin, i + 1)

Update(lst, plugin) == UpdateLoop(lst, plugin, 1)

(***************************************************************************)
(* Membership queries                                                      *)
(***************************************************************************)
\* a query that takes the version into account as well
HasSomeVersionOf_Exact(lst, plugin) ==
    \E i \in 1..Len(lst) :
        lst[i].Name = plugin.Name /\ lst[i].Version = plugin.Version

HasSomeVersionOf(lst, plugin) ==
    \E i \in 1..Len(lst) : lst[i].Name = plugin.Name

HasExactVersionOf(lst, plugin) ==
    \E i \in 1..Len(lst) :
        lst[i].Name = plugin.Name /\ lst[i].Version = plugin.Version

\* a comparison that passes over a listed version it cannot parse
HasNewerCompare_SkipInvalid(listedVersion, requestedVersion) ==
    IF ~listedVersion.ok THEN "continue"
    ELSE IF ~requestedVersion.ok THEN "error"
    ELSE IF Compare(listedVersion, requestedVersion) = 1 THEN "true"
    ELSE "continue"

\* a comparison that takes an equal version for a newer one
HasNewerCompare_NotOlder(listedVersion, requestedVersion) ==
    IF ~listedVersion.ok THEN "error"
    ELSE IF ~requestedVersion.ok THEN "error"
    ELSE IF Compare(listedVersion, requestedVersion) # -1 THEN "true"
    ELSE "continue"

\* HasNewerVersionOf's loop body once the names are equal: the two results of
\* semver.Make, the listed one looked at first
HasNewerCompare(listedVersion, requestedVersion) ==
    IF ~listedVersion.ok THEN "error"
    ELSE IF ~requestedVersion.ok THEN "error"
    ELSE IF Compare(listedVersion, requestedVersion) = 1 THEN "true"
    ELSE "continue"

\* one iteration of HasNewerVersionOf's loop: what it does with listedPlugin
HasNewerCheck(listedPlugin, plugin) ==
    IF listedPlugin.Name # plugin.Name THEN "continue"
    ELSE HasNewerCompare(Make(listedPlugin.Version), Make(plugin.Version))

\* the loop, given the outcome of iteration i
RECURSIVE HasNewerLoop(_, _, _, _)
HasNewerLoop(lst, plugin, i, step) ==
    IF step = "error" THEN [ret |-> FALSE, err |-> TRUE]
    ELSE IF step = "true" THEN [ret |-> TRUE, err |-> FALSE]
    ELSE IF i + 1 > Len(lst) THEN [ret |-> FALSE, err |-> FALSE]
    ELSE HasNewerLoop(lst, plugin, i + 1, HasNewerCheck(lst[i + 1], plugin))

\* (bool, error) as [ret, err]
HasNewerVersionOf(lst, plugin) == HasNewerLoop(lst, plugin, 0, "continue")

(***************************************************************************)
(* PluginList.Sanitize                                                     *)
(***************************************************************************)
\* an iteration that keeps every parseable entry, repeated names included
SanitizeStep_NoDedup(sanitized, plugin) ==
    IF ~Parse(plugin.Version).ok THEN sanitized
    ELSE Append(sanitized, plugin)

\* an iteration that does not look at the version
SanitizeStep_NoSemverCheck(sanitized, plugin) ==
    IF ~HasSomeVersionOf(sanitized, plugin) THEN Append(sanitized, plugin)
    ELSE sanitized

\* an iteration that puts the entry in front
SanitizeStep_Prepend(sanitized, plugin) ==
    IF ~Parse(plugin.Version).ok THEN sanitized
    ELSE IF ~HasSomeVersionOf(sanitized, plugin) THEN <<plugin>> \o sanitized
    ELSE sanitized

\* one iteration of Sanitize's loop
SanitizeStep(sanitized, plugin) ==
    IF ~Parse(plugin.Version).ok THEN sanitized
    ELSE IF ~HasSomeVersionOf(sanitized, plugin) THEN Append(sanitized, plugin)
    ELSE sanitized

RECURSIVE SanitizeLoop(_, _, _)
SanitizeLoop(lst, i, sanitized) ==
    IF i > Len(lst) THEN sanitized
    ELSE SanitizeLoop(lst, i + 1, SanitizeStep(sanitized, lst[i]))

Sanitize(lst) == SanitizeLoop(lst, 1, <<>>)

(***************************************************************************)
(* PluginList.ConsolidatedConcat                                           *)
(***************************************************************************)
\* ConsolidatedConcat's loop body for a plugin already accumulated, given
\* what HasNewerVersionOf returned
ConsolidateKnown(consolidatedPlugins, plugin, hasNewer) ==
    IF hasNewer.err THEN [ret |-> <<>>, err |-> TRUE]
    ELSE IF hasNewer.ret THEN [ret |-> consolidatedPlugins, err |-> FALSE]
    ELSE IF HasExactVersionOf(consolidatedPlugins, plugin)
         THEN [ret |-> consolidatedPlugins, err |-> FALSE]
    ELSE [ret |-> Update(consolidatedPlugins, plugin), err |-> FALSE]

\* one iteration of ConsolidatedConcat's loop: the accumulator after it, or
\* the error that ends the call
ConsolidateStep(consolidatedPlugins, plugin) ==
    IF ~HasSomeVersionOf(consolidatedPlugins, plugin)
    THEN [ret |-> Append(consolidatedPlugins, plugin), err |-> FALSE]
    ELSE ConsolidateKnown(consolidatedPlugins, plugin,
                          HasNewerVersionOf(consolidatedPlugins, plugin))

\* the loop, given the outcome of the iterations before i
RECURSIVE ConsolidateLoop(_, _, _)
ConsolidateLoop(oth, i, acc) ==
    IF acc.err THEN [ret |-> <<>>, err |-> TRUE]
    ELSE IF i > Len(oth) THEN acc
    ELSE ConsolidateLoop(oth, i + 1, ConsolidateStep(acc.ret, oth[i]))

\* an accumulator that starts from the receiver
ConsolidatedConcat_SeedReceiver(lst, oth) ==
    ConsolidateLoop(oth, 1, [ret |-> lst, err |-> FALSE])

\* (PluginList, error) as [ret, err]; the accumulator starts nil
ConsolidatedConcat(lst, oth) ==
    ConsolidateLoop(oth, 1, [ret |-> <<>>, err |-> FALSE])

(***************************************************************************)
(* The state machine: a collection l and the call being made on it.  The    *)
(* type is synchronous and single-threaded: a call is made when no call is *)
(* in progress (op = "none"), and Return ends it.                          *)
(***************************************************************************)
VARIABLES
    l,          \* the receiver collection
    others,     \* the collection argument of the last call, <<>> if none
    plugin,     \* the entry argument of the last call, NoPlugin if none
    op,         \* the method called, "none" when no call is in progress
    retList,    \* the PluginList it returned
    retBool,    \* the bool it returned
    retErr,     \* TRUE when it returned an error
    retHash     \* the fingerprints it returned

vars == <<l, others, plugin, op, retList, retBool, retErr, retHash>>

Init ==
    /\ l \in PluginLists
    /\ others = <<>>
    /\ plugin = NoPlugin
    /\ op = "none"
    /\ retList = <<>>
    /\ retBool = FALSE
    /\ retErr = FALSE
    /\ retHash = <<>>

\* l.Hash() and o.Hash() for a second collection o
CallHash ==
    /\ op = "none"
    /\ \E n \in ArgumentLens(l) : \E o \in ListsOfLen(n) :
        /\ others' = o
        /\ retHash' = <<Hash(l), Hash(o)>>
        /\ op' = "Hash"
        /\ plugin' = NoPlugin
        /\ retList' = <<>>
        /\ retBool' = FALSE
        /\ retErr' = FALSE
        /\ l' = l

\* l.Update(&p)
CallUpdate ==
    /\ op = "none"
    /\ \E p \in Plugins :
        /\ plugin' = p
        /\ l' = Update(l, p)
        /\ op' = "Update"
        /\ others' = <<>>
        /\ retList' = <<>>
        /\ retBool' = FALSE
        /\ retErr' = FALSE
        /\ retHash' = <<>>

\* l.Sanitize()
CallSanitize ==
    /\ op = "none"
    /\ retList' = Sanitize(l)
    /\ op' = "Sanitize"
    /\ others' = <<>>
    /\ plugin' = NoPlugin
    /\ retBool' = FALSE
    /\ retErr' = FALSE
    /\ retHash' = <<>>
    /\ l' = l

\* l.HasNewerVersionOf(&p)
CallHasNewerVersionOf ==
    /\ op = "none"
    /\ \E p \in Plugins :
        /\ plugin' = p
        /\ retBool' = HasNewerVersionOf(l, p).ret
        /\ retErr' = HasNewerVersionOf(l, p).err
        /\ op' = "HasNewerVersionOf"
        /\ others' = <<>>
        /\ retList' = <<>>
        /\ retHash' = <<>>
        /\ l' = l

\* l.ConsolidatedConcat(o)
CallConsolidatedConcat ==
    /\ op = "none"
    /\ \E n \in ArgumentLens(l) : \E o \in ListsOfLen(n) :
        /\ others' = o
        /\ retList' = ConsolidatedConcat(l, o).ret
        /\ retErr' = ConsolidatedConcat(l, o).err
        /\ op' = "ConsolidatedConcat"
        /\ plugin' = NoPlugin
        /\ retBool' = FALSE
        /\ retHash' = <<>>
        /\ l' = l

\* the call returns: its arguments and results go out of scope
Return ==
    /\ op # "none"
    /\ op' = "none"
    /\ others' = <<>>
    /\ plugin' = NoPlugin
    /\ retList' = <<>>
    /\ retBool' = FALSE
    /\ retErr' = FALSE
    /\ retHash' = <<>>
    /\ l' = l

Next ==
    \/ CallHash
    \/ CallUpdate
    \/ CallSanitize
    \/ CallHasNewerVersionOf
    \/ CallConsolidatedConcat
    \/ Return

Spec == Init /\ [][Next]_vars

(***************************************************************************)
(* Vocabulary of the properties.                                           *)
(***************************************************************************)
Parses(version) == Parse(version).ok

\* v is strictly lower than w under semantic-version precedence
Lower(v, w) == Parses(v) /\ Parses(w) /\ Compare(Parse(v), Parse(w)) = -1

\* v is strictly greater than w under semantic-version precedence
Greater(v, w) == Parses(v) /\ Parses(w) /\ Compare(Parse(v), Parse(w)) = 1

\* the positions of lst that hold the name
Positions(lst, name) == {i \in 1..Len(lst) : lst[i].Name = name}

Least(S) == CHOOSE i \in S : \A j \in S : i <= j

\* the entries of lst that are the first of their name, in order
FirstSightings(lst) ==
    SelectSeq([i \in 1..Len(lst) |-> [at |-> i, entry |-> lst[i]]],
              LAMBDA x : \A j \in 1..(x.at - 1) : lst[j].Name # x.entry.Name)

NamesOf(lst) == [i \in 1..Len(lst) |-> lst[i].Name]

\* the characters of all names and versions of lst, in order
RECURSIVE Characters(_)
Characters(lst) ==
    IF lst = <<>> THEN <<>>
    ELSE Characters(SubSeq(lst, 1, Len(lst) - 1))
         \o lst[Len(lst)].Name \o lst[Len(lst)].Version

\* the collections tried as a second receiver
Receivers == ListsOfLen(0) \cup ListsOfLen(1)

(***************************************************************************)
(* C1: when every version of incoming parses, ConsolidatedConcat succeeds  *)
(* and retains, for each name of incoming, exactly one entry, whose        *)
(* version is not lower than any version incoming gives that name.         *)
(* The code does not do this: Update changes nothing.                      *)
(***************************************************************************)
C1_HighestVersionRetained ==
    (op = "ConsolidatedConcat" /\ \A i \in 1..Len(others) : Parses(others[i].Version))
    => /\ ~retErr
       /\ \A i \in 1..Len(others) :
            /\ Cardinality(Positions(retList, others[i].Name)) = 1
            /\ \A k \in Positions(retList, others[i].Name) :
                 ~Lower(retList[k].Version, others[i].Version)

(***************************************************************************)
(* C2: Update(e) sets the version of the first entry of l named e.Name to  *)
(* e.Version and leaves the length and every other entry as they were;     *)
(* with no entry of that name, l is unchanged.                             *)
(* The code does not do this: the version is assigned to a copy.           *)
(***************************************************************************)
C2_UpdateSetsFirstMatch ==
    [][op' = "Update"
       => IF Positions(l, plugin'.Name) # {}
          THEN /\ Len(l') = Len(l)
               /\ \A j \in 1..Len(l) :
                    IF j = Least(Positions(l, plugin'.Name))
                    THEN l'[j] = [l[j] EXCEPT !.Version = plugin'.Version]
                    ELSE l'[j] = l[j]
          ELSE l' = l]_vars

(***************************************************************************)
(* C3, as claimed: an unparseable version anywhere in incoming makes       *)
(* ConsolidatedConcat fail, with no result list.                           *)
(***************************************************************************)
C3_AnyUnparseableFails ==
    (op = "ConsolidatedConcat" /\ \E i \in 1..Len(others) : ~Parses(others[i].Version))
    => (retErr /\ retList = <<>>)

(***************************************************************************)
(* C3, amended: ConsolidatedConcat fails exactly when some entry of        *)
(* incoming with an unparseable version shares its name with another entry *)
(* of incoming; when it fails it returns no result list.  An unparseable   *)
(* entry whose name occurs once is retained and the call succeeds.         *)
(***************************************************************************)
C3_SharedNameUnparseableFails ==
    op = "ConsolidatedConcat"
    => /\ retErr <=> \E i \in 1..Len(others) :
                        /\ ~Parses(others[i].Version)
                        /\ Cardinality(Positions(others, others[i].Name)) > 1
       /\ retErr => retList = <<>>
       /\ ~retErr => \A i \in 1..Len(others) :
                        ~Parses(others[i].Version)
                        => \E k \in 1..Len(retList) : retList[k] = others[i]

\* the call fails on its third entry, after two entries were accumulated
C3_Witness ==
    /\ op = "ConsolidatedConcat"
    /\ retErr
    /\ retList = <<>>
    /\ Len(others) = 3
    /\ Parses(others[1].Version)
    /\ others[2].Name # others[1].Name
    /\ ~Parses(others[3].Version)

(***************************************************************************)
(* C4, as claimed: with an entry of l named e.Name, HasNewerVersionOf(e)   *)
(* fails when e.Version or the version of any entry of l named e.Name      *)
(* does not parse, wherever that entry is; otherwise it returns true       *)
(* exactly when some entry of that name is strictly greater.               *)
(***************************************************************************)
C4_UnparseableNeverSkipped ==
    (op = "HasNewerVersionOf" /\ Positions(l, plugin.Name) # {})
    => IF \/ ~Parses(plugin.Version)
          \/ \E i \in Positions(l, plugin.Name) : ~Parses(l[i].Version)
       THEN retErr
       ELSE /\ ~retErr
            /\ retBool <=> \E i \in Positions(l, plugin.Name) :
                              Greater(l[i].Version, plugin.Version)

(***************************************************************************)
(* C4, amended: with an entry of l named e.Name, HasNewerVersionOf(e)      *)
(* fails when e.Version does not parse; otherwise the first entry of that  *)
(* name that does not parse or is strictly greater than e.Version decides: *)
(* the call fails if that entry does not parse, returns true if it is      *)
(* strictly greater, and returns false when there is no such entry.        *)
(***************************************************************************)
C4_FirstDecisiveEntryDecides ==
    (op = "HasNewerVersionOf" /\ Positions(l, plugin.Name) # {})
    => LET decisive == {i \in Positions(l, plugin.Name) :
                           \/ ~Parses(l[i].Version)
                           \/ Greater(l[i].Version, plugin.Version)}
       IN  IF ~Parses(plugin.Version) THEN retErr /\ ~retBool
           ELSE IF decisive = {} THEN ~retErr /\ ~retBool
           ELSE IF ~Parses(l[Least(decisive)].Version) THEN retErr /\ ~retBool
           ELSE ~retErr /\ retBool

\* true is returned although an entry of that name does not parse
C4_Witness ==
    /\ op = "HasNewerVersionOf"
    /\ retBool
    /\ ~retErr
    /\ \E i \in Positions(l, plugin.Name) : ~Parses(l[i].Version)

(***************************************************************************)
(* C5, as claimed: two collections have the same Hash exactly when they    *)
(* are the same sequence of entries.                                       *)
(***************************************************************************)
C5_HashDistinguishesSequences ==
    op = "Hash" => (retHash[1] = retHash[2] <=> l = others)

(***************************************************************************)
(* C5, amended: two collections have the same Hash exactly when the        *)
(* characters of their names and versions, read in order, are the same     *)
(* string; so equal sequences have equal hashes, and two collections that  *)
(* differ have different hashes unless those strings coincide.             *)
(***************************************************************************)
C5_HashDistinguishesCharacters ==
    op = "Hash"
    => /\ retHash[1] = retHash[2] <=> Characters(l) = Characters(others)
       /\ l = others => retHash[1] = retHash[2]

\* two different collections with one fingerprint
C5_Witness ==
    /\ op = "Hash"
    /\ l # others
    /\ Len(l) = Len(others)
    /\ retHash[1] = retHash[2]

(***************************************************************************)
(* C6: when ConsolidatedConcat succeeds, its result holds exactly one      *)
(* entry for each name of incoming, the names in the order of their first  *)
(* occurrence; and an incoming entry whose version is lower than, or the   *)
(* same string as, the version retained for its name leaves the            *)
(* accumulated result as it was.                                           *)
(***************************************************************************)
C6_OneEntryPerNameInFirstSeenOrder ==
    (op = "ConsolidatedConcat" /\ ~retErr)
    => /\ NamesOf(retList) = NamesOf([i \in 1..Len(FirstSightings(others)) |->
                                        FirstSightings(others)[i].entry])
       /\ \A k \in 1..Len(others) :
            LET before == ConsolidatedConcat(l, SubSeq(others, 1, k - 1))
                after == ConsolidatedConcat(l, SubSeq(others, 1, k))
                held == Positions(before.ret, others[k].Name)
            IN  (/\ held # {}
                 /\ \E h \in held :
                      \/ before.ret[h].Version = others[k].Version
                      \/ Lower(others[k].Version, before.ret[h].Version))
                => (~before.err /\ ~after.err /\ after.ret = before.ret)

\* a lower version of the first plugin arrives after another plugin
C6_Witness ==
    /\ op = "ConsolidatedConcat"
    /\ ~retErr
    /\ Len(others) = 3
    /\ Len(retList) = 2
    /\ others[3].Name = others[1].Name
    /\ Lower(others[3].Version, others[1].Version)
    /\ retList[1] = others[1]

(***************************************************************************)
(* C7: the result of Sanitize has no two entries of one name, and every    *)
(* version in it parses.                                                   *)
(***************************************************************************)
C7_SanitizedIsUniqueAndParseable ==
    op = "Sanitize"
    => /\ \A i, j \in 1..Len(retList) : retList[i].Name = retList[j].Name => i = j
       /\ \A i \in 1..Len(retList) : Parses(retList[i].Version)

\* a collection with a repeated name and an unparseable version is sanitized
C7_Witness ==
    /\ op = "Sanitize"
    /\ \E i \in 1..Len(l) : ~Parses(l[i].Version)
    /\ \E i, j \in 1..Len(l) :
         i < j /\ l[i].Name = l[j].Name /\ Parses(l[i].Version) /\ Parses(l[j].Version)
    /\ Len(retList) = 1

(***************************************************************************)
(* C8: Sanitize is idempotent: sanitizing its result gives that result.    *)
(***************************************************************************)
C8_SanitizeIdempotent ==
    op = "Sanitize" => Sanitize(retList) = retList

\* two entries are kept and one is dropped
C8_Witness ==
    /\ op = "Sanitize"
    /\ Len(l) = 3
    /\ Len(retList) = 2
    /\ retList[1].Name # l[1].Name

(***************************************************************************)
(* C9: the outcome of ConsolidatedConcat depends on incoming alone, any    *)
(* other receiver gives the same result or the same failure, and the call  *)
(* leaves the receiver as it was.                                          *)
(***************************************************************************)
C9_ReceiverIgnoredAndUnchanged ==
    [][op' = "ConsolidatedConcat"
       => /\ l' = l
          /\ \A r \in Receivers :
               ConsolidatedConcat(r, others') = [ret |-> retList', err |-> retErr']]_vars

\* a receiver with entries that the result does not hold
C9_Witness ==
    /\ op = "ConsolidatedConcat"
    /\ ~retErr
    /\ Len(l) = 2
    /\ Len(others) = 2
    /\ \A i \in 1..Len(l) : \A k \in 1..Len(retList) : retList[k] # l[i]

(***************************************************************************)
(* C10: ConsolidatedConcat of a sanitized collection succeeds and returns  *)
(* that collection: both for the result Sanitize has just returned and for *)
(* an incoming collection that Sanitize leaves as it is.                   *)
(***************************************************************************)
C10_ConsolidatingSanitizedIsIdentity ==
    /\ op = "Sanitize"
       => ConsolidatedConcat(l, retList) = [ret |-> retList, err |-> FALSE]
    /\ (op = "ConsolidatedConcat" /\ Sanitize(others) = others)
       => (~retErr /\ retList = others)

\* a raw collection loses an entry to Sanitize and keeps two
C10_Witness ==
    /\ op = "Sanitize"
    /\ Len(retList) = 2
    /\ \E i \in 1..Len(l) : ~Parses(l[i].Version)

====
